---- MODULE Spec2Model ----
(***************************************************************************)
(* Model of ExampleScenes/parse_events.py: the two-pass scanner            *)
(* parse_scene, print_documentation and the module-level driver loop.      *)
(*                                                                         *)
(* Indices i, j, k, m, arg_line are the 0-based indices of the Python      *)
(* code; At(ls, p) is lines[p].                                            *)
(*                                                                         *)
(* A line of the scene file is a record [kind, a, b].  Each kind stands    *)
(* for one concrete text shape; the predicates below say, for every test   *)
(* the code applies to a line (re.match, substring test, startswith),      *)
(* which shapes pass it.                                                   *)
(*                                                                         *)
(*   hdr    "--- !u!<a> &<b>"                                              *)
(*   name   "  m_Name: <a>"                                                *)
(*   owner  "  m_GameObject: {fileID: <a>}"                                *)
(*   bare   "  <a>"                       (letters only, no colon)         *)
(*   event  "  <a>:"                                                       *)
(*   pcalls "    m_PersistentCalls:"                                       *)
(*   calls  "      m_Calls:"                                               *)
(*   item   "      - m_Target: {fileID: <a>}"                              *)
(*   type   "        m_TargetAssemblyTypeName: <a>, <b>"                   *)
(*   method "        m_MethodName: <a>"                                    *)
(*   args   "        m_Arguments:"                                         *)
(*   int    "          m_IntArgument: <a>"                                 *)
(*   float  "          m_FloatArgument: <a>"                               *)
(*   string "          m_StringArgument: <a>"                              *)
(*   bool   "          m_BoolArgument: <a>"                                *)
(*   other  "        m_CallState: 2"                                       *)
(*                                                                         *)
(* Payloads a, b are the texts as they stand after .strip().               *)
(***************************************************************************)
EXTENDS Integers, Sequences, FiniteSets, TLC

VARIABLES scene, log, pc, lines, gameobjects, current_id, components,
          comp_data, event_name, call_data, i, j, k, m

vars == <<scene, log, pc, lines, gameobjects, current_id, components,
          comp_data, event_name, call_data, i, j, k, m>>

(* ---------------------------------------------------------------------- *)
(* Lines                                                                    *)
(* ---------------------------------------------------------------------- *)
Hdr(tag, id) == [kind |-> "hdr", a |-> tag, b |-> id]
NameL(n) == [kind |-> "name", a |-> n, b |-> ""]
OwnerL(id) == [kind |-> "owner", a |-> id, b |-> ""]
Bare(t) == [kind |-> "bare", a |-> t, b |-> ""]
EventL(e) == [kind |-> "event", a |-> e, b |-> ""]
PCalls == [kind |-> "pcalls", a |-> "", b |-> ""]
Calls == [kind |-> "calls", a |-> "", b |-> ""]
Item(id) == [kind |-> "item", a |-> id, b |-> ""]
TypeL(t, asm) == [kind |-> "type", a |-> t, b |-> asm]
MethodL(mn) == [kind |-> "method", a |-> mn, b |-> ""]
Args == [kind |-> "args", a |-> "", b |-> ""]
IntL(v) == [kind |-> "int", a |-> v, b |-> ""]
FloatL(v) == [kind |-> "float", a |-> v, b |-> ""]
StringL(v) == [kind |-> "string", a |-> v, b |-> ""]
BoolL(v) == [kind |-> "bool", a |-> v, b |-> ""]
Other == [kind |-> "other", a |-> "", b |-> ""]

At(ls, p) == ls[p + 1]

\* a window end that forgets the length of the input
MinFirst(x, y) == x

Min(x, y) == IF x < y THEN x ELSE y

\* a header pattern that accepts every type tag: r'--- !u!\d+ &(\d+)'
MatchGameObjectAnyTag(l) == l.kind = "hdr" /\ l.b # ""

\* re.match(r'--- !u!1 &(\d+)', line): the tag must be exactly 1, because
\* the pattern wants " &" right after it; the id must have a digit.
MatchGameObject(l) == l.kind = "hdr" /\ l.a = "1" /\ l.b # ""

\* re.match(r'--- !u!114 &(\d+)', line)
MatchMonoBehaviour(l) == l.kind = "hdr" /\ l.a = "114" /\ l.b # ""

\* 'm_Name:' in line
HasName(l) == l.kind = "name"

\* line.split('m_Name:')[1].strip()
NameOf(l) == l.a

\* 'm_GameObject: {fileID:' in lines[j]
HasGameObjectRef(l) == l.kind = "owner"

\* 'm_Target: {fileID:' in lines[k]
HasTargetRef(l) == l.kind = "item"

\* re.search(r'fileID: (\d+)', line): "" when there is no digit to match
FileID(l) == l.a

\* line_j.startswith('---')
StartsDocument(l) == l.kind = "hdr"

\* re.match(r'  \w+:$', line_j)
IsEventDecl(l) == l.kind = "event"

\* line_j.strip().rstrip(':')
EventNameOf(l) == l.a

\* lines[k].startswith('      -')
IsListItem(l) == l.kind = "item"

\* re.match(r'^  [a-zA-Z]', l) and ':' not in l and not l.strip().startswith('m_')
\* and potential_type and not potential_type.startswith('-')
IsTypeLine(l) == l.kind = "bare" /\ l.a # ""

(* ---------------------------------------------------------------------- *)
(* Dictionaries                                                             *)
(* ---------------------------------------------------------------------- *)
EmptyDict == [x \in {} |-> ""]

\* d[key] = val
Put(d, key, val) == [x \in DOMAIN d \cup {key} |-> IF x = key THEN val ELSE d[x]]

Unknown(id) == "Unknown-" \o id

\* Resolve with a fallback that forgets the id
ResolveBare(g, id) == IF id \in DOMAIN g THEN g[id] ELSE "Unknown"

\* gameobjects.get(id, f'Unknown-{id}')
Resolve(g, id) == IF id \in DOMAIN g THEN g[id] ELSE Unknown(id)

(* ---------------------------------------------------------------------- *)
(* Program constants                                                        *)
(* ---------------------------------------------------------------------- *)
Scenes == <<"collectionExample.unity", "projectileExample.unity", "puzzleExample.unity">>

OwnerWindow == 20

TypeWindow == 50

CallWindow == 10

ArgWindow == 10

(* ---------------------------------------------------------------------- *)
(* First pass: one iteration of the loop over the lines                     *)
(* ---------------------------------------------------------------------- *)
\* Pass1Line without "current_id = None" after a name was recorded
Pass1LineKeepPending(g, cur, l) ==
    IF MatchGameObject(l)
    THEN [g |-> g, cur |-> l.b]
    ELSE IF cur # "" /\ HasName(l)
         THEN [g |-> Put(g, cur, NameOf(l)), cur |-> cur]
         ELSE [g |-> g, cur |-> cur]

Pass1Line(g, cur, l) ==
    IF MatchGameObject(l)
    THEN [g |-> g, cur |-> l.b]
    ELSE IF cur # "" /\ HasName(l)
         THEN [g |-> Put(g, cur, NameOf(l)), cur |-> ""]
         ELSE [g |-> g, cur |-> cur]

(* ---------------------------------------------------------------------- *)
(* Second pass: the bounded lookaheads of a component header at index i0    *)
(* ---------------------------------------------------------------------- *)
\* the entries of g whose object header stands before line i0
SeenBefore(ls, g, i0) ==
    [id \in {x \in DOMAIN g : \E p \in 0..(i0 - 1) :
                 MatchGameObject(At(ls, p)) /\ At(ls, p).b = x} |-> g[id]]

RECURSIVE FindGameObjectSeenOnly(_, _, _, _, _)
\* FindGameObject resolving in scan order: only objects already seen count
FindGameObjectSeenOnly(ls, g, i0, jj, cd) ==
    IF jj < Min(i0 + OwnerWindow, Len(ls))
    THEN IF HasGameObjectRef(At(ls, jj))
         THEN IF FileID(At(ls, jj)) # ""
              THEN Put(cd, "gameobject", Resolve(SeenBefore(ls, g, i0), FileID(At(ls, jj))))
              ELSE cd
         ELSE FindGameObjectSeenOnly(ls, g, i0, jj + 1, cd)
    ELSE cd

RECURSIVE FindGameObject(_, _, _, _, _)
\* the "while j < min(i + 20, len(lines))" loop
FindGameObject(ls, g, i0, jj, cd) ==
    IF jj < Min(i0 + OwnerWindow, Len(ls))
    THEN IF HasGameObjectRef(At(ls, jj))
         THEN IF FileID(At(ls, jj)) # ""
              THEN Put(cd, "gameobject", Resolve(g, FileID(At(ls, jj))))
              ELSE cd
         ELSE FindGameObject(ls, g, i0, jj + 1, cd)
    ELSE cd

RECURSIVE FindType(_, _, _)
\* the "while j < min(i + 50, len(lines))" loop; "" is comp_type = None
FindType(ls, i0, jj) ==
    IF jj < Min(i0 + TypeWindow, Len(ls))
    THEN IF IsTypeLine(At(ls, jj))
         THEN At(ls, jj).a
         ELSE FindType(ls, i0, jj + 1)
    ELSE ""

\* comp_data after lines 34-74
OpenComponentData(ls, g, i0) ==
    LET cd0 == [id |-> At(ls, i0).b, events |-> <<>>]
        cd1 == FindGameObject(ls, g, i0, i0, cd0)
        ty == FindType(ls, i0, i0)
    IN IF ty # "" THEN Put(cd1, "type", ty) ELSE cd1

\* HasCallsMarkers without the test of the calls-list line
HasContainerMarker(ls, jj) ==
    /\ jj + 2 < Len(ls)
    /\ At(ls, jj + 1).kind = "pcalls"

\* lines 89-91: the two markers right after the event line
HasCallsMarkers(ls, jj) ==
    /\ jj + 2 < Len(ls)
    /\ At(ls, jj + 1).kind = "pcalls"
    /\ At(ls, jj + 2).kind = "calls"

\* one line of the argument scan, lines 117-129
ArgLine(cd, l) ==
    IF l.kind = "int"
    THEN Put(cd, "arg", "int(" \o l.a \o ")")
    ELSE IF l.kind = "float" /\ l.a # "0"
    THEN Put(cd, "arg", "float(" \o l.a \o ")")
    ELSE IF l.kind = "string"
    THEN IF l.a # "" THEN Put(cd, "arg", "\"" \o l.a \o "\"") ELSE cd
    ELSE IF l.kind = "bool"
    THEN Put(cd, "arg", l.a)
    ELSE cd

RECURSIVE ArgScan(_, _, _, _)
\* the "while arg_line < min(m + 10, len(lines))" loop
ArgScan(ls, m0, arg_line, cd) ==
    IF arg_line < Min(m0 + ArgWindow, Len(ls))
    THEN ArgScan(ls, m0, arg_line + 1, ArgLine(cd, At(ls, arg_line)))
    ELSE cd

\* one iteration of the method lookahead, lines 107-130
LookaheadLine(ls, mm, cd) ==
    LET l == At(ls, mm)
    IN IF l.kind = "type"
       THEN Put(cd, "target_type", l.a)
       ELSE IF l.kind = "method"
       THEN Put(cd, "method", l.a)
       ELSE IF l.kind = "args"
       THEN ArgScan(ls, mm, mm, cd)
       ELSE cd

RECURSIVE Lookahead(_, _, _, _)
\* the "while m < min(k + 10, len(lines)) and not lines[m].startswith('      -')"
\* loop; yields the final m and call_data
Lookahead(ls, k0, mm, cd) ==
    IF mm < Min(k0 + CallWindow, Len(ls)) /\ ~IsListItem(At(ls, mm))
    THEN Lookahead(ls, k0, mm + 1, LookaheadLine(ls, mm, cd))
    ELSE [m |-> mm, call |-> cd]

\* lines 96-102: a fresh call_data with its target
NewCall(ls, g, ev, k0) ==
    LET cd0 == [event |-> ev]
    IN IF HasTargetRef(At(ls, k0)) /\ FileID(At(ls, k0)) # ""
       THEN Put(cd0, "target_name", Resolve(g, FileID(At(ls, k0))))
       ELSE cd0

\* RetainCall without the test for a method
RetainCallAlways(cd, call) == [cd EXCEPT !.events = Append(@, call)]

\* lines 133-134
RetainCall(cd, call) ==
    IF "method" \in DOMAIN call
    THEN [cd EXCEPT !.events = Append(@, call)]
    ELSE cd

\* RetainComponent without the test for events
RetainComponentAlways(comps, cd) == Append(comps, cd)

\* lines 140-141
RetainComponent(comps, cd) ==
    IF cd.events # <<>> THEN Append(comps, cd) ELSE comps

(* ---------------------------------------------------------------------- *)
(* Scene files the driver may find                                          *)
(* ---------------------------------------------------------------------- *)
MaxDocs == 2

\* the event of the documents below up to the calls-list line
EventHead(e) == <<EventL(e), PCalls, Calls>>

ObjectDocs ==
    { <<Hdr("1", "100"), NameL("Door")>>,
      <<Hdr("1", "101"), NameL("Lamp")>>,
      <<Hdr("1", "100"), NameL("Gate"), NameL("Extra")>>,
      <<Hdr("1", "101")>>,
      <<Hdr("4", "300"), NameL("Xform"), OwnerL("100"), Bare("Later")>> }

BehaviourDocs ==
    { <<Hdr("114", "200")>>,
      <<Hdr("114", "200"), OwnerL("100"), Bare("DoorScript")>> \o EventHead("onOpen"),
      <<Hdr("114", "201"), OwnerL("300"), EventL("onOpen")>>,
      <<Hdr("114", "201"), EventL("onOpen"), PCalls>>,
      <<Hdr("114", "201"), EventL("onOpen"), Calls, PCalls>>,
      <<Hdr("114", "200"), OwnerL("100")>> \o EventHead("onOpen")
          \o <<Item("100"), TypeL("Door", "Assembly-CSharp"), MethodL("Open"),
               Args, BoolL("1")>>,
      <<Hdr("114", "201"), OwnerL("100")>> \o EventHead("onHit")
          \o <<Item("300"), MethodL("Fire")>>,
      <<Hdr("114", "201"), OwnerL("101")>> \o EventHead("onHit") \o <<Item("101")>> }

DocSet == ObjectDocs \cup BehaviourDocs

RECURSIVE DocSeqs(_)
\* the concatenations of at most n documents
DocSeqs(n) ==
    IF n = 0 THEN {<<>>}
    ELSE LET shorter == DocSeqs(n - 1)
         IN shorter \cup {s \o d : s \in shorter, d \in DocSet}

\* single behaviour blocks whose one call has one argument-value field
ArgumentScenes ==
    { <<Hdr("114", "200")>> \o EventHead("onSet")
          \o <<Item("100"), MethodL("Set"), Args, f>> :
      f \in {IntL("0"), IntL("7"), FloatL("0"), FloatL("2.5"), StringL(""),
             StringL("hi"), BoolL("0")} }

\* a block with two events, one call each
TwoEventScene ==
    <<Hdr("114", "200"), OwnerL("100")>>
        \o EventHead("onOpen") \o <<Item("100"), MethodL("Open")>>
        \o EventHead("onClose") \o <<Item("100"), MethodL("Close")>>

\* a call with all four argument-value fields, as the editor writes them
MultiArgScene ==
    <<Hdr("114", "200")>> \o EventHead("onSet")
        \o <<Item("100"), MethodL("Set"), Args, IntL("0"), FloatL("0"),
             StringL(""), BoolL("1")>>

\* two calls of one event; only the second has an argument-value field
TwoCallScene ==
    <<Hdr("114", "200")>> \o EventHead("onSet")
        \o <<Item("100"), MethodL("First"), Args,
             Item("101"), MethodL("Second"), Args, IntL("7")>>

\* a call whose argument-value field is the 11th line after the list item
LongCallScene ==
    <<Hdr("114", "200")>> \o EventHead("onSet")
        \o <<Item("100"), MethodL("Far"), Other, Other, Other, Other, Other,
             Other, Args, Other, Other, IntL("5")>>

\* references without digits
GapScene ==
    <<Hdr("114", "200"), OwnerL("")>> \o EventHead("onOpen") \o <<Item("")>>

CallScenes == {TwoEventScene, MultiArgScene, TwoCallScene, LongCallScene, GapScene}

Scenefiles == DocSeqs(MaxDocs) \cup ArgumentScenes \cup CallScenes

\* open() or readlines() raising: no such file, or bytes that are not UTF-8
Unreadable == {"FileNotFoundError", "UnicodeDecodeError"}

(* ---------------------------------------------------------------------- *)
(* State machine                                                            *)
(* ---------------------------------------------------------------------- *)
Init ==
    /\ scene = 1
    /\ log = <<>>
    /\ pc = "idle"
    /\ lines = <<>>
    /\ gameobjects = EmptyDict
    /\ current_id = ""
    /\ components = <<>>
    /\ comp_data = EmptyDict
    /\ event_name = ""
    /\ call_data = EmptyDict
    /\ i = 0
    /\ j = 0
    /\ k = 0
    /\ m = 0

\* the driver's try block raises in open()/readlines(); the except clause
\* reports it and the for loop goes on
OpenFails ==
    /\ pc = "idle"
    /\ scene <= Len(Scenes)
    /\ \E e \in Unreadable :
          log' = Append(log, [scene |-> Scenes[scene], status |-> "error", n |-> 0])
    /\ scene' = scene + 1
    /\ UNCHANGED <<pc, lines, gameobjects, current_id, components, comp_data,
                   event_name, call_data, i, j, k, m>>

\* the driver calls print_documentation, which calls parse_scene: the file is
\* read and the locals of a fresh call are set up
OpenScene ==
    /\ pc = "idle"
    /\ scene <= Len(Scenes)
    /\ \E f \in Scenefiles : lines' = f
    /\ pc' = "pass1"
    /\ gameobjects' = EmptyDict
    /\ current_id' = ""
    /\ components' = <<>>
    /\ comp_data' = EmptyDict
    /\ event_name' = ""
    /\ call_data' = EmptyDict
    /\ i' = 0
    /\ j' = 0
    /\ k' = 0
    /\ m' = 0
    /\ UNCHANGED <<scene, log>>

Pass1Step ==
    /\ pc = "pass1"
    /\ i < Len(lines)
    /\ LET r == Pass1Line(gameobjects, current_id, At(lines, i))
       IN /\ gameobjects' = r.g
          /\ current_id' = r.cur
    /\ i' = i + 1
    /\ UNCHANGED <<scene, log, pc, lines, components, comp_data, event_name,
                   call_data, j, k, m>>

Pass1Done ==
    /\ pc = "pass1"
    /\ i >= Len(lines)
    /\ pc' = "scan"
    /\ components' = <<>>
    /\ i' = 0
    /\ UNCHANGED <<scene, log, lines, gameobjects, current_id, comp_data,
                   event_name, call_data, j, k, m>>

\* a line that does not open a MonoBehaviour
ScanLine ==
    /\ pc = "scan"
    /\ i < Len(lines)
    /\ ~MatchMonoBehaviour(At(lines, i))
    /\ i' = i + 1
    /\ UNCHANGED <<scene, log, pc, lines, gameobjects, current_id, components,
                   comp_data, event_name, call_data, j, k, m>>

OpenComponent ==
    /\ pc = "scan"
    /\ i < Len(lines)
    /\ MatchMonoBehaviour(At(lines, i))
    /\ comp_data' = OpenComponentData(lines, gameobjects, i)
    /\ j' = i
    /\ pc' = "events"
    /\ UNCHANGED <<scene, log, lines, gameobjects, current_id, components,
                   event_name, call_data, i, k, m>>

\* the event loop is over: end of input or the next document marker
EventsStop(ls, i0, jj) ==
    IF jj >= Len(ls) THEN TRUE ELSE jj > i0 /\ StartsDocument(At(ls, jj))

CloseComponent ==
    /\ pc = "events"
    /\ EventsStop(lines, i, j)
    /\ components' = RetainComponent(components, comp_data)
    /\ i' = i + 1
    /\ pc' = "scan"
    /\ UNCHANGED <<scene, log, lines, gameobjects, current_id, comp_data,
                   event_name, call_data, j, k, m>>

\* a line of the block that starts no calls list
EventScan ==
    /\ pc = "events"
    /\ ~EventsStop(lines, i, j)
    /\ ~(IsEventDecl(At(lines, j)) /\ HasCallsMarkers(lines, j))
    /\ event_name' = IF IsEventDecl(At(lines, j)) THEN EventNameOf(At(lines, j))
                     ELSE event_name
    /\ j' = j + 1
    /\ UNCHANGED <<scene, log, pc, lines, gameobjects, current_id, components,
                   comp_data, call_data, i, k, m>>

\* an event line followed by the two markers
EnterCalls ==
    /\ pc = "events"
    /\ ~EventsStop(lines, i, j)
    /\ IsEventDecl(At(lines, j))
    /\ HasCallsMarkers(lines, j)
    /\ event_name' = EventNameOf(At(lines, j))
    /\ k' = j + 3
    /\ pc' = "calls"
    /\ UNCHANGED <<scene, log, lines, gameobjects, current_id, components,
                   comp_data, call_data, i, j, m>>

\* the test of "while k < len(lines) and lines[k].startswith('      -')"
InCallsList(ls, kk) == kk < Len(ls) /\ IsListItem(At(ls, kk))

CallBegin ==
    /\ pc = "calls"
    /\ InCallsList(lines, k)
    /\ call_data' = NewCall(lines, gameobjects, event_name, k)
    /\ m' = k
    /\ pc' = "lookahead"
    /\ UNCHANGED <<scene, log, lines, gameobjects, current_id, components,
                   comp_data, event_name, i, j, k>>

CallEnd ==
    /\ pc = "lookahead"
    /\ LET r == Lookahead(lines, k, m, call_data)
       IN /\ call_data' = r.call
          /\ m' = r.m
          /\ comp_data' = RetainCall(comp_data, r.call)
          /\ k' = r.m
    /\ pc' = "calls"
    /\ UNCHANGED <<scene, log, lines, gameobjects, current_id, components,
                   event_name, i, j>>

CallsDone ==
    /\ pc = "calls"
    /\ ~InCallsList(lines, k)
    /\ j' = j + 1
    /\ pc' = "events"
    /\ UNCHANGED <<scene, log, lines, gameobjects, current_id, components,
                   comp_data, event_name, call_data, i, k, m>>

\* parse_scene returns, print_documentation prints the components and the
\* driver moves to the next scene
Return ==
    /\ pc = "scan"
    /\ i >= Len(lines)
    /\ log' = Append(log, [scene |-> Scenes[scene], status |-> "printed",
                           n |-> Len(components)])
    /\ scene' = scene + 1
    /\ pc' = "idle"
    /\ UNCHANGED <<lines, gameobjects, current_id, components, comp_data,
                   event_name, call_data, i, j, k, m>>

Next ==
    \/ OpenFails
    \/ OpenScene
    \/ Pass1Step
    \/ Pass1Done
    \/ ScanLine
    \/ OpenComponent
    \/ CloseComponent
    \/ EventScan
    \/ EnterCalls
    \/ CallBegin
    \/ CallEnd
    \/ CallsDone
    \/ Return

Spec == Init /\ [][Next]_vars

\* the interpreter keeps executing: a step that can be taken is taken
FairSpec == Spec /\ WF_vars(Next)

TypeOK ==
    /\ scene \in 1..(Len(Scenes) + 1)
    /\ pc \in {"idle", "pass1", "scan", "events", "calls", "lookahead"}
    /\ i \in 0..Len(lines)
    /\ j \in 0..Len(lines)

(* ---------------------------------------------------------------------- *)
(* Shapes of the input the properties speak about                           *)
(* ---------------------------------------------------------------------- *)
\* line p belongs to the call record whose list-item line is kk
InRecord(ls, kk, p) ==
    /\ kk < p
    /\ p < Len(ls)
    /\ \A q \in (kk + 1)..p : ~IsListItem(At(ls, q)) /\ ~StartsDocument(At(ls, q))

\* the lines of the record at kk that have one of the kinds
FieldsOf(ls, kk, kinds) ==
    {p \in (kk + 1)..(Len(ls) - 1) : InRecord(ls, kk, p) /\ At(ls, p).kind \in kinds}

ArgKinds == {"int", "float", "string", "bool"}

MinOf(S) == CHOOSE x \in S : \A y \in S : x <= y

\* the list-item line kk is the one call of a complete event structure
SoleCallOfEvent(ls, jj, kk) ==
    /\ IsEventDecl(At(ls, jj))
    /\ HasCallsMarkers(ls, jj)
    /\ kk = jj + 3
    /\ kk < Len(ls)
    /\ IsListItem(At(ls, kk))
    /\ \A q \in (kk + 1)..(Len(ls) - 1) :
          IsListItem(At(ls, q)) => \E r \in (kk + 1)..q : StartsDocument(At(ls, r))

\* the scene of the end-to-end example
DoorScene ==
    <<Hdr("1", "100"), NameL("Door"), Hdr("114", "200"), OwnerL("100")>>
        \o EventHead("onOpen")
        \o <<Item("100"), TypeL("Door", "Assembly-CSharp"), MethodL("Open"),
             Args, BoolL("1")>>

(* ---------------------------------------------------------------------- *)
(* Properties                                                               *)
(* ---------------------------------------------------------------------- *)

\* C1: parse_scene terminates; in particular every iteration of the
\* calls-list loop (the step that ends the processing of one call record)
\* leaves the index k strictly larger than it was.
C1_CallsIndexAdvances == [][pc = "lookahead" => k' > k]_vars

\* C2: when the one call record of a complete event structure has a
\* method-name field, processing that record leaves exactly one retained call
\* in the component's events, carrying that method name.
C2_OneCallRetained ==
    [][(/\ pc = "lookahead"
        /\ SoleCallOfEvent(lines, j, k)
        /\ comp_data.events = <<>>
        /\ FieldsOf(lines, k, {"method"}) # {})
       => (/\ Len(comp_data'.events) = 1
           /\ "method" \in DOMAIN comp_data'.events[1]
           /\ comp_data'.events[1].method
                 = At(lines, MinOf(FieldsOf(lines, k, {"method"}))).a)]_vars

\* C3: for the end-to-end scene (object 100 named Door, behaviour 200 owned
\* by 100, event onOpen with one call: target 100, type Door, method Open,
\* bool 1) the component built from the behaviour block has owner Door and
\* the single call {onOpen, Door, Door, Open, "1"}.
C3_EndToEnd ==
    [][(pc = "lookahead" /\ lines = DoorScene)
       => (/\ DOMAIN comp_data' = {"id", "events", "gameobject"}
           /\ comp_data'.gameobject = "Door"
           /\ comp_data'.events
                 = <<[event |-> "onOpen", target_name |-> "Door",
                      target_type |-> "Door", method |-> "Open", arg |-> "1"]>>)]_vars

\* C4: a call with a method whose only argument-value field is the float
\* field has no argument when the literal is 0 and the argument float(v)
\* when the literal v is not 0.
C4_FloatArgument ==
    [][(/\ pc = "lookahead"
        /\ FieldsOf(lines, k, {"method"}) # {}
        /\ FieldsOf(lines, k, {"args"}) # {}
        /\ Cardinality(FieldsOf(lines, k, ArgKinds)) = 1
        /\ FieldsOf(lines, k, {"float"}) # {})
       => LET v == At(lines, MinOf(FieldsOf(lines, k, {"float"}))).a
          IN IF v = "0"
             THEN "arg" \notin DOMAIN call_data'
             ELSE "arg" \in DOMAIN call_data' /\ call_data'.arg = "float(" \o v \o ")"]_vars

\* C5: a call with a method whose argument-value field is the int field with
\* literal 0 has the argument int(0).
C5_IntZeroArgument ==
    [][(/\ pc = "lookahead"
        /\ FieldsOf(lines, k, {"method"}) # {}
        /\ FieldsOf(lines, k, {"args"}) # {}
        /\ Cardinality(FieldsOf(lines, k, ArgKinds)) = 1
        /\ FieldsOf(lines, k, {"int"}) # {}
        /\ At(lines, MinOf(FieldsOf(lines, k, {"int"}))).a = "0")
       => ("arg" \in DOMAIN call_data' /\ call_data'.arg = "int(0)")]_vars

\* C6: every component record in the sequence parse_scene builds has a
\* non-empty events sequence, and closing a behaviour block from which no
\* call was retained leaves that sequence as it was.
C6_OnlyNonEmptyComponents ==
    /\ [](\A n \in DOMAIN components : components[n].events # <<>>)
    /\ [][(/\ pc = "events"
           /\ pc' = "scan"
           /\ comp_data.events = <<>>) => components' = components]_vars

\* C6 witness: a behaviour block was scanned to its end without a retained
\* call and the output is empty.
C6_Witness ==
    /\ pc = "scan"
    /\ i > 0
    /\ i <= Len(lines)
    /\ MatchMonoBehaviour(At(lines, i - 1))
    /\ "events" \in DOMAIN comp_data
    /\ comp_data.events = <<>>
    /\ components = <<>>

\* the calls of all component records built so far
AllCalls ==
    (IF "events" \in DOMAIN comp_data
     THEN {comp_data.events[n] : n \in DOMAIN comp_data.events} ELSE {})
    \cup UNION {{components[c].events[n] : n \in DOMAIN components[c].events} :
                c \in DOMAIN components}

\* C7: every call record in any component's events has a method name, and
\* finishing a call record for which no method name was recovered leaves the
\* events sequence unchanged.
C7_OnlyCallsWithMethod ==
    /\ [](\A c \in AllCalls : "method" \in DOMAIN c)
    /\ [][(pc = "lookahead" /\ "method" \notin DOMAIN call_data')
          => comp_data'.events = comp_data.events]_vars

\* C7 witness: a call record was processed, no method was recovered, and the
\* events are still empty.
C7_Witness ==
    /\ pc = "calls"
    /\ "event" \in DOMAIN call_data
    /\ "method" \notin DOMAIN call_data
    /\ "events" \in DOMAIN comp_data
    /\ comp_data.events = <<>>

\* the type-tag-1 headers of the input
ObjectHeaders(ls) == {p \in 0..(Len(ls) - 1) : MatchGameObject(At(ls, p))}

\* the name fields between header p and the next object header
NamesAfter(ls, p) ==
    {q \in (p + 1)..(Len(ls) - 1) :
        /\ HasName(At(ls, q))
        /\ \A r \in (p + 1)..q : ~MatchGameObject(At(ls, r))}

\* object headers with pairwise distinct IDs, each followed by a name field
DistinctNamedObjects(ls) ==
    /\ \A p, q \in ObjectHeaders(ls) : p # q => At(ls, p).b # At(ls, q).b
    /\ \A p \in ObjectHeaders(ls) : NamesAfter(ls, p) # {}

\* C8: once the first pass is over, if the input has N object headers with
\* pairwise distinct IDs, each followed by a name field before the next
\* object header, the mapping has exactly N entries, one per header ID, each
\* mapped to the name that followed its header.
C8_MappingOfDistinctObjects ==
    (pc # "pass1" /\ DistinctNamedObjects(lines))
    => /\ DOMAIN gameobjects = {At(lines, p).b : p \in ObjectHeaders(lines)}
       /\ Cardinality(DOMAIN gameobjects) = Cardinality(ObjectHeaders(lines))
       /\ \A p \in ObjectHeaders(lines) :
             gameobjects[At(lines, p).b] = NameOf(At(lines, MinOf(NamesAfter(lines, p))))

\* C8 witness: the first pass is over for an input with two such headers.
C8_Witness ==
    /\ pc = "scan"
    /\ DistinctNamedObjects(lines)
    /\ Cardinality(ObjectHeaders(lines)) = 2

\* the owner-reference lines in the window of the header at i0
OwnerRefs(ls, i0) ==
    {p \in i0..(Min(i0 + OwnerWindow, Len(ls)) - 1) : HasGameObjectRef(At(ls, p))}

\* the name the claim gives to a reference
NameFor(id) == IF id \in DOMAIN gameobjects THEN gameobjects[id] ELSE "Unknown-" \o id

\* C9: an owner reference and a target reference with an ID always get a
\* name: the mapped name when the ID is a key of the mapping, the
\* placeholder Unknown-<id> when it is not.
C9_ReferenceResolution ==
    /\ (/\ pc \in {"events", "calls", "lookahead"}
        /\ OwnerRefs(lines, i) # {}
        /\ FileID(At(lines, MinOf(OwnerRefs(lines, i)))) # "")
       => (/\ "gameobject" \in DOMAIN comp_data
           /\ comp_data.gameobject = NameFor(FileID(At(lines, MinOf(OwnerRefs(lines, i))))))
    /\ (pc = "lookahead" /\ HasTargetRef(At(lines, k)) /\ FileID(At(lines, k)) # "")
       => (/\ "target_name" \in DOMAIN call_data
           /\ call_data.target_name = NameFor(FileID(At(lines, k))))

\* C9 witness: an owner whose ID is a key and a target whose ID is not.
C9_Witness ==
    /\ pc = "lookahead"
    /\ "gameobject" \in DOMAIN comp_data
    /\ comp_data.gameobject = "Door"
    /\ "100" \in DOMAIN gameobjects
    /\ "target_name" \in DOMAIN call_data
    /\ call_data.target_name = "Unknown-300"
    /\ "300" \notin DOMAIN gameobjects

\* the driver has entered the try block of the s-th filename
Started(s) == scene > s \/ (scene = s /\ pc # "idle")

\* C10: whatever the scene files contain, the processing of every filename
\* of the list is eventually started.
C10_EverySceneStarted == \A s \in 1..Len(Scenes) : <>Started(s)

\* the indices a "while x < min(from + size, len(lines))" loop reads
WindowOf(ls, from, size) == from..(Min(from + size, Len(ls)) - 1)

\* C11: every line index a lookahead reads (owner window, type window, the
\* two marker lines, the calls-list index k, the per-call index m and the
\* argument index) is an index of the line array, and a name is split only
\* out of a line that has the name marker.
C11_ReadsInRange ==
    /\ (pc = "scan" /\ i < Len(lines) /\ MatchMonoBehaviour(At(lines, i)))
       => \A p \in WindowOf(lines, i, OwnerWindow) \cup WindowOf(lines, i, TypeWindow) :
             p < Len(lines)
    /\ pc \in {"calls", "lookahead"} => j + 2 < Len(lines)
    /\ pc = "lookahead"
       => /\ k < Len(lines)
          /\ m < Len(lines)
          /\ \A p \in WindowOf(lines, k, CallWindow) :
                /\ p < Len(lines)
                /\ \A q \in WindowOf(lines, p, ArgWindow) : q < Len(lines)
    /\ \A id \in DOMAIN gameobjects :
          \E q \in 0..(Len(lines) - 1) :
             HasName(At(lines, q)) /\ gameobjects[id] = NameOf(At(lines, q))

\* C11 witness: an event line with fewer than two lines after it, in a block
\* without an owner reference, was scanned.
C11_Witness ==
    /\ pc = "events"
    /\ j > 0
    /\ j < Len(lines)
    /\ IsEventDecl(At(lines, j - 1))
    /\ j + 1 >= Len(lines)
    /\ "gameobject" \notin DOMAIN comp_data

\* the lines of the block whose header is at i0: up to, not including, the
\* next document marker
OwnBlock(ls, i0) ==
    {p \in i0..(Len(ls) - 1) : \A q \in (i0 + 1)..p : ~StartsDocument(At(ls, q))}

\* C12: the owner and the type name of a component record come from lines
\* of its own block, never from a following document.
C12_AttributesFromOwnBlock ==
    pc \in {"events", "calls", "lookahead"}
    => /\ "gameobject" \in DOMAIN comp_data
          => \E p \in OwnBlock(lines, i) : HasGameObjectRef(At(lines, p))
       /\ "type" \in DOMAIN comp_data
          => \E p \in OwnBlock(lines, i) :
                IsTypeLine(At(lines, p)) /\ comp_data.type = At(lines, p).a

\* C13: a candidate event line starts call extraction only if the next line
\* has the persistent-calls marker and the line after it the calls-list
\* marker; in every other case (a marker absent or misplaced, fewer than two
\* lines remaining) no call record is produced and scanning resumes at the
\* next line of the block.
C13_CandidateNeedsBothMarkers ==
    [][(/\ pc = "events"
        /\ j < Len(lines)
        /\ (j > i => ~StartsDocument(At(lines, j)))
        /\ IsEventDecl(At(lines, j)))
       => IF /\ j + 2 < Len(lines)
             /\ At(lines, j + 1) = PCalls
             /\ At(lines, j + 2) = Calls
          THEN pc' = "calls" /\ k' = j + 3 /\ j' = j
          ELSE /\ pc' = "events"
               /\ j' = j + 1
               /\ call_data' = call_data
               /\ comp_data' = comp_data]_vars

\* C13 witness: a candidate followed by the persistent-calls marker but not
\* by the calls-list marker was discarded and the scan went on.
C13_Witness ==
    /\ pc = "events"
    /\ j > 0
    /\ j + 1 < Len(lines)
    /\ IsEventDecl(At(lines, j - 1))
    /\ At(lines, j) = PCalls
    /\ At(lines, j + 1) # Calls
    /\ "event" \notin DOMAIN call_data
    /\ event_name = EventNameOf(At(lines, j - 1))

\* C14: a block with two events, each with the two markers and one call with
\* a method, ends up in the output with both calls, in the order of the
\* events, each tagged with its own event name.
C14_BothEventsRetained ==
    (pc = "pass1" /\ lines = TwoEventScene)
    ~> (/\ pc = "idle"
        /\ lines = TwoEventScene
        /\ Len(components) = 1
        /\ Len(components[1].events) = 2
        /\ components[1].events[1].event = "onOpen"
        /\ components[1].events[1].method = "Open"
        /\ components[1].events[2].event = "onClose"
        /\ components[1].events[2].method = "Close")

\* the behaviour document of the end-to-end example, twice: two blocks with
\* the same block ID and the same owner
TwinScene ==
    LET doc == <<Hdr("114", "200"), OwnerL("100")>> \o EventHead("onOpen")
                  \o <<Item("100"), TypeL("Door", "Assembly-CSharp"),
                       MethodL("Open"), Args, BoolL("1")>>
    IN doc \o doc

\* C15: the output lists one record per qualifying header, in header order,
\* also when two blocks have the same owner and the same block ID: the two
\* equal blocks give two records, not one merged or deduplicated record.
C15_OneRecordPerHeader ==
    (pc = "pass1" /\ lines = TwinScene)
    ~> (/\ pc = "idle"
        /\ lines = TwinScene
        /\ Len(components) = 2
        /\ \A n \in 1..2 :
              /\ components[n].id = "200"
              /\ Len(components[n].events) = 1
              /\ components[n].events[1].method = "Open")

\* a header line with type tag 1 and an ID
IsObjectHeader(l) == l.kind = "hdr" /\ l.a = "1" /\ l.b # ""

MaxOf(S) == CHOOSE x \in S : \A y \in S : x >= y

\* the object headers among the first n lines
HeadersBefore(ls, n) == {p \in 0..(n - 1) : IsObjectHeader(At(ls, p))}

\* the name fields among the first n lines that come after header h with no
\* object header in between
NamesOf(ls, n, h) ==
    {q \in (h + 1)..(n - 1) :
        /\ At(ls, q).kind = "name"
        /\ \A r \in (h + 1)..q : ~IsObjectHeader(At(ls, r))}

\* the pending ID after the first n lines: the ID of the last object header
\* if no name field followed it yet
PendingAfter(ls, n) ==
    IF HeadersBefore(ls, n) = {} THEN ""
    ELSE LET h == MaxOf(HeadersBefore(ls, n))
         IN IF NamesOf(ls, n, h) = {} THEN At(ls, h).b ELSE ""

\* the mapping after the first n lines: every object header that was
\* followed by a name field maps its ID to the first such name, a later
\* header with the same ID replacing an earlier one
MappingAfter(ls, n) ==
    LET named == {h \in HeadersBefore(ls, n) : NamesOf(ls, n, h) # {}}
    IN [id \in {At(ls, h).b : h \in named} |->
          LET last == MaxOf({h \in named : At(ls, h).b = id})
          IN At(ls, MinOf(NamesOf(ls, n, last))).a]

\* C16: in the first pass a name field is recorded only while an ID is
\* pending, for the most recent type-tag-1 header, and recording clears the
\* pending ID: a second name field after the same header changes nothing,
\* and a header with another type tag sets no pending ID.
C16_PendingDiscipline ==
    /\ pc = "pass1" => current_id = PendingAfter(lines, i)
    /\ gameobjects = MappingAfter(lines, IF pc = "pass1" THEN i ELSE Len(lines))

\* C16 witness: two name fields followed one object header; the first is in
\* the mapping, the second was ignored and nothing is pending.
C16_Witness ==
    /\ pc = "pass1"
    /\ i >= 3
    /\ IsObjectHeader(At(lines, i - 3))
    /\ At(lines, i - 2).kind = "name"
    /\ At(lines, i - 1).kind = "name"
    /\ At(lines, i - 1).a # At(lines, i - 2).a
    /\ current_id = ""
    /\ At(lines, i - 3).b \in DOMAIN gameobjects
    /\ gameobjects[At(lines, i - 3).b] = At(lines, i - 2).a

\* the mapping of the whole input, wherever the object documents stand
FullMapping(ls) == MappingAfter(ls, Len(ls))

\* C17: an owner or a call target whose object header and name stand
\* anywhere in the input, also after the behaviour block, resolves to that
\* object's name, never to the placeholder.
C17_OrderIndependentResolution ==
    /\ (/\ pc \in {"events", "calls", "lookahead"}
        /\ OwnerRefs(lines, i) # {}
        /\ FileID(At(lines, MinOf(OwnerRefs(lines, i)))) \in DOMAIN FullMapping(lines))
       => (/\ "gameobject" \in DOMAIN comp_data
           /\ comp_data.gameobject
                 = FullMapping(lines)[FileID(At(lines, MinOf(OwnerRefs(lines, i))))])
    /\ (/\ pc = "lookahead"
        /\ At(lines, k).kind = "item"
        /\ At(lines, k).a \in DOMAIN FullMapping(lines))
       => (/\ "target_name" \in DOMAIN call_data
           /\ call_data.target_name = FullMapping(lines)[At(lines, k).a])

\* C17 witness: a block whose owner and call target is object 100, whose
\* header and name come only after the block, resolved both to Door.
C17_Witness ==
    /\ pc = "lookahead"
    /\ HeadersBefore(lines, k) = {}
    /\ "gameobject" \in DOMAIN comp_data
    /\ comp_data.gameobject = "Door"
    /\ "target_name" \in DOMAIN call_data
    /\ call_data.target_name = "Door"

\* C18: a call with a method whose only argument-value field is the string
\* field with an empty value still has a string argument (only the float
\* field is rejected at its default value).
C18_EmptyStringArgument ==
    [][(/\ pc = "lookahead"
        /\ FieldsOf(lines, k, {"method"}) # {}
        /\ FieldsOf(lines, k, {"args"}) # {}
        /\ Cardinality(FieldsOf(lines, k, ArgKinds)) = 1
        /\ FieldsOf(lines, k, {"string"}) # {}
        /\ At(lines, MinOf(FieldsOf(lines, k, {"string"}))).a = "")
       => ("arg" \in DOMAIN call_data' /\ call_data'.arg = "\"\"")]_vars

\* C19: when a call's argument block has more than one argument-value field
\* and the int field is among them, the recorded argument is the int field,
\* the first in the order int, float, string, bool; no later field replaces
\* it.
C19_FirstFieldInOrderWins ==
    [][(/\ pc = "lookahead"
        /\ FieldsOf(lines, k, {"method"}) # {}
        /\ FieldsOf(lines, k, {"args"}) # {}
        /\ Cardinality(FieldsOf(lines, k, ArgKinds)) > 1
        /\ Cardinality(FieldsOf(lines, k, {"int"})) = 1)
       => (/\ "arg" \in DOMAIN call_data'
           /\ call_data'.arg
                 = "int(" \o At(lines, MinOf(FieldsOf(lines, k, {"int"}))).a \o ")")]_vars

\* the lines of the record at kk that lie in its lookahead
InLookahead(ls, kk) == {p \in (kk + 1)..(Len(ls) - 1) : InRecord(ls, kk, p) /\ p < kk + CallWindow}

\* the only line of kind kd in the lookahead of the record at kk has value v
SoleField(ls, kk, kd, v) ==
    /\ Cardinality({p \in InLookahead(ls, kk) : At(ls, p).kind = kd}) = 1
    /\ \E p \in InLookahead(ls, kk) : At(ls, p).kind = kd /\ At(ls, p).a = v

\* C20: every field of a call record is read only from the lines between its
\* list-item line and the next list-item line, at most 10 lines after the
\* list-item line, and a target-reference, type or method field inside this
\* range is recovered.
C20_FieldsFromOwnRecord ==
    [][pc = "lookahead"
       => /\ \A v \in {At(lines, p).a : p \in InLookahead(lines, k)} :
                /\ SoleField(lines, k, "method", v)
                   => ("method" \in DOMAIN call_data' /\ call_data'.method = v)
                /\ SoleField(lines, k, "type", v)
                   => ("target_type" \in DOMAIN call_data' /\ call_data'.target_type = v)
          /\ "method" \in DOMAIN call_data'
             => \E p \in InLookahead(lines, k) :
                   At(lines, p).kind = "method" /\ call_data'.method = At(lines, p).a
          /\ "arg" \in DOMAIN call_data'
             => \E p \in InLookahead(lines, k) \cup {k + CallWindow} :
                   /\ InRecord(lines, k, p)
                   /\ At(lines, p).kind \in ArgKinds]_vars

====
